---------------------------- MODULE Spec2Model ----------------------------
(***************************************************************************)
(* Model of PullRequestCoordinator                                         *)
(* (app/src/lib/stores/pull-request-coordinator.ts).                       *)
(*                                                                         *)
(* The coordinator keeps two fields: `repositories`, the snapshot of the   *)
(* local repositories that have a GitHub repository, and                   *)
(* `currentPullRequestUpdater`.  The repositories store, the pull request  *)
(* store and the updaters are collaborators: the model records the calls   *)
(* the coordinator makes on them and the callbacks it invokes.             *)
(***************************************************************************)
EXTENDS Integers, Sequences, FiniteSets

VARIABLES
    repositories,               \* this.repositories
    currentPullRequestUpdater,  \* this.currentPullRequestUpdater
    registry,                   \* what the repositories store last delivered
    dropped,                    \* snapshot entries the last registry update removed
    updaterCalls,               \* every call made on a PullRequestUpdater, in order
    subscribed,                 \* store events the coordinator has a handler on
    handles,                    \* what each registration returned to its caller
    frame,                      \* the store-event handler in progress, if any
    invoked,                    \* consumer callback invocations of that handler
    storeCalls,                 \* calls the last coordinator method made on the store
    lastOp                      \* the last coordinator method or handler entered

vars == <<repositories, currentPullRequestUpdater, registry, dropped,
          updaterCalls, subscribed, handles, frame, invoked, storeCalls, lastOp>>

-----------------------------------------------------------------------------
(* Bounds and value universes *)

MaxRepos == 2       \* longest list the repositories store delivers
MaxUpdaters == 2    \* number of PullRequestUpdater objects constructed

NULL == [null |-> TRUE]

DbIDs == {1, 2}
Accounts == {"acc1", "acc2"}
PullRequestLists == {"prsA", "prsB"}
pullRequestStore == "pullRequestStore"

\* GitHubRepository: an upstream (parent = null) or a fork of an upstream.
Upstreams == [dbID : DbIDs, parent : {NULL}]
Forks == {g \in [dbID : DbIDs, parent : Upstreams] : g.parent.dbID # g.dbID}
GitHubRepositories == Upstreams \cup Forks

\* Repository: a local repository, with or without a GitHub repository.
Repositories == [gitHubRepository : GitHubRepositories \cup {NULL}]

SeqsUpTo(S, n) == UNION {[1..k -> S] : k \in 0..n}
Range(s) == {s[i] : i \in 1..Len(s)}
Count(x, s) == Cardinality({i \in 1..Len(s) : s[i] = x})

-----------------------------------------------------------------------------
(* Pure helpers *)

\* models/repository.ts: a repository whose gitHubRepository is not null.
isRepositoryWithGitHubRepository(r) == r.gitHubRepository # NULL

RepositoriesWithGitHubRepository ==
    {r \in Repositories : isRepositoryWithGitHubRepository(r)}

\* returns the list unfiltered
findRepositoriesForGitHubRepository_All(gitHubRepository, repos) == repos

\* matches clones only, not forks
findRepositoriesForGitHubRepository_NoParent(gitHubRepository, repos) ==
    LET dbID == gitHubRepository.dbID
    IN  SelectSeq(repos, LAMBDA r : r.gitHubRepository.dbID = dbID)

RECURSIVE Reverse(_)
Reverse(s) == IF s = <<>> THEN <<>> ELSE Append(Reverse(Tail(s)), Head(s))

\* collects the matches with unshift: last match first
findRepositoriesForGitHubRepository_Unshift(gitHubRepository, repos) ==
    LET dbID == gitHubRepository.dbID
    IN  Reverse(SelectSeq(repos, LAMBDA r :
            \/ r.gitHubRepository.dbID = dbID
            \/ /\ r.gitHubRepository.parent # NULL
               /\ r.gitHubRepository.parent.dbID = dbID))

findRepositoriesForGitHubRepository(gitHubRepository, repos) ==
    LET dbID == gitHubRepository.dbID
    IN  SelectSeq(repos, LAMBDA r :
            \/ r.gitHubRepository.dbID = dbID
            \/ /\ r.gitHubRepository.parent # NULL
               /\ r.gitHubRepository.parent.dbID = dbID)

-----------------------------------------------------------------------------
(* Initial state: the fields as the constructor leaves them *)

Idle == [pc |-> "idle"]

\* the constructor fills the snapshot itself instead of waiting for the registry
Init_Seeded ==
    /\ repositories \in SeqsUpTo(RepositoriesWithGitHubRepository, 1) \ {<<>>}
    /\ currentPullRequestUpdater = NULL
    /\ registry = [updated |-> FALSE, list |-> <<>>]
    /\ dropped = {}
    /\ updaterCalls = <<>>
    /\ subscribed = {}
    /\ handles = {}
    /\ frame = Idle
    /\ invoked = <<>>
    /\ storeCalls = <<>>
    /\ lastOp = [op |-> "constructor"]

Init ==
    /\ repositories = <<>>
    /\ currentPullRequestUpdater = NULL
    /\ registry = [updated |-> FALSE, list |-> <<>>]
    /\ dropped = {}
    /\ updaterCalls = <<>>
    /\ subscribed = {}
    /\ handles = {}
    /\ frame = Idle
    /\ invoked = <<>>
    /\ storeCalls = <<>>
    /\ lastOp = [op |-> "constructor"]

\* The record of a finished handler is kept until the snapshot it read is
\* replaced.
Retire == frame' = Idle /\ invoked' = <<>>

-----------------------------------------------------------------------------
(* The repositories store's update handler (constructor, lines 30-34).     *)
(* Handlers run to completion: the store delivers an update only when no   *)
(* fan-out is in progress.                                                 *)

\* merges the delivered list into the snapshot
onDidUpdate_Merge(allRepositories) ==
    repositories \o SelectSeq(allRepositories, LAMBDA r :
        isRepositoryWithGitHubRepository(r) /\ r \notin Range(repositories))

\* keeps the snapshot when the delivered list has no GitHub repository
onDidUpdate_KeepIfEmpty(allRepositories) ==
    IF SelectSeq(allRepositories, isRepositoryWithGitHubRepository) = <<>>
    THEN repositories
    ELSE SelectSeq(allRepositories, isRepositoryWithGitHubRepository)

onDidUpdate(allRepositories) ==
    SelectSeq(allRepositories, isRepositoryWithGitHubRepository)

\* poll only while the list of repositories is unchanged: an update of the
\* registry also stops the running updater
RegistryUpdate_StopsUpdater ==
    \E allRepositories \in SeqsUpTo(Repositories, MaxRepos) :
        /\ repositories' = onDidUpdate(allRepositories)
        /\ registry' = [updated |-> TRUE, list |-> allRepositories]
        /\ dropped' = Range(repositories) \ Range(allRepositories)
        /\ frame.pc # "loop"
        /\ Retire
        /\ storeCalls' = <<>>
        /\ lastOp' = [op |-> "onDidUpdate"]
        /\ currentPullRequestUpdater' = NULL
        /\ updaterCalls' =
               IF currentPullRequestUpdater # NULL
               THEN Append(updaterCalls,
                           [id |-> currentPullRequestUpdater.id, call |-> "stop"])
               ELSE updaterCalls
        /\ UNCHANGED <<subscribed, handles>>

RegistryUpdate ==
    \E allRepositories \in SeqsUpTo(Repositories, MaxRepos) :
        /\ repositories' = onDidUpdate(allRepositories)
        /\ registry' = [updated |-> TRUE, list |-> allRepositories]
        /\ dropped' = Range(repositories) \ Range(allRepositories)
        /\ frame.pc # "loop"
        /\ Retire
        /\ storeCalls' = <<>>
        /\ lastOp' = [op |-> "onDidUpdate"]
        /\ UNCHANGED <<currentPullRequestUpdater, updaterCalls, subscribed, handles>>

-----------------------------------------------------------------------------
(* Store events: the handlers registered on the pull request store *)

\* reads the array the field held when the coordinator was constructed
pullRequestsChangedMatches_Captured(ghRepo, snapshot) ==
    findRepositoriesForGitHubRepository(ghRepo, <<>>)

\* Array.find in place of filter: the first match only
pullRequestsChangedMatches_First(ghRepo, snapshot) ==
    LET m == findRepositoriesForGitHubRepository(ghRepo, snapshot)
    IN  IF m = <<>> THEN <<>> ELSE <<m[1]>>

\* lines 46-49: the matches of the pull-requests-changed handler
pullRequestsChangedMatches(ghRepo, snapshot) ==
    findRepositoriesForGitHubRepository(ghRepo, snapshot)

\* the loading-state copy of the handler without the parent clause
isLoadingMatches_DirectOnly(ghRepo, snapshot) ==
    findRepositoriesForGitHubRepository_NoParent(ghRepo, snapshot)

\* lines 66-69: the matches of the loading-state handler
isLoadingMatches(ghRepo, snapshot) ==
    findRepositoriesForGitHubRepository(ghRepo, snapshot)

\* line 51: fn(repo, pullRequests)
pullRequestsChangedCall(repo, pullRequests) ==
    [repository |-> repo, arg |-> pullRequests]

\* line 71: fn(repo, pullRequests), the second argument being isLoading
isLoadingCall(repo, isLoading) ==
    [repository |-> repo, arg |-> isLoading]

\* The handler's activation: its parameters, the local constant
\* `repositories` and the position of the for loop.  `snapshot` records the
\* field this.repositories as the handler read it.
Begin(kind, ghRepo, arg, matches) ==
    /\ frame' = [pc |-> IF matches = <<>> THEN "done" ELSE "loop",
                 kind |-> kind, ghRepo |-> ghRepo, arg |-> arg,
                 repositories |-> matches, i |-> 1,
                 snapshot |-> repositories]
    /\ invoked' = <<>>
    /\ storeCalls' = <<>>
    /\ lastOp' = [op |-> kind]
    /\ UNCHANGED <<repositories, currentPullRequestUpdater, registry, dropped,
                   updaterCalls, subscribed, handles>>

\* The store emits (ghRepo, pullRequests).  Handlers do not nest: an event is
\* delivered only when no fan-out is in progress.
PullRequestsChangedEvent ==
    \E ghRepo \in GitHubRepositories, pullRequests \in PullRequestLists :
        /\ "pullRequestsChanged" \in subscribed
        /\ frame.pc # "loop"
        /\ Begin("pullRequestsChanged", ghRepo, pullRequests,
                 pullRequestsChangedMatches(ghRepo, repositories))

\* The store emits (ghRepo, isLoading).
IsLoadingEvent ==
    \E ghRepo \in GitHubRepositories, isLoading \in BOOLEAN :
        /\ "isLoading" \in subscribed
        /\ frame.pc # "loop"
        /\ Begin("isLoading", ghRepo, isLoading,
                 isLoadingMatches(ghRepo, repositories))

\* evaluates this.repositories anew in every iteration
InvokeCallback_Reread ==
    /\ frame.pc = "loop"
    /\ LET current == findRepositoriesForGitHubRepository(frame.ghRepo, repositories)
       IN  IF frame.i <= Len(current)
           THEN /\ invoked' = Append(invoked,
                       IF frame.kind = "pullRequestsChanged"
                       THEN pullRequestsChangedCall(current[frame.i], frame.arg)
                       ELSE isLoadingCall(current[frame.i], frame.arg))
                /\ frame' = [frame EXCEPT
                               !.i = @ + 1,
                               !.pc = IF frame.i >= Len(current)
                                      THEN "done" ELSE "loop"]
           ELSE /\ invoked' = invoked
                /\ frame' = [frame EXCEPT !.pc = "done"]
    /\ UNCHANGED <<repositories, currentPullRequestUpdater, registry, dropped,
                   updaterCalls, subscribed, handles, storeCalls, lastOp>>

\* One iteration of the for loop (lines 50-52, 70-72).
InvokeCallback ==
    /\ frame.pc = "loop"
    /\ LET repo == frame.repositories[frame.i]
       IN  invoked' = Append(invoked,
               IF frame.kind = "pullRequestsChanged"
               THEN pullRequestsChangedCall(repo, frame.arg)
               ELSE isLoadingCall(repo, frame.arg))
    /\ frame' = [frame EXCEPT
                   !.i = @ + 1,
                   !.pc = IF frame.i = Len(frame.repositories)
                          THEN "done" ELSE "loop"]
    /\ UNCHANGED <<repositories, currentPullRequestUpdater, registry, dropped,
                   updaterCalls, subscribed, handles, storeCalls, lastOp>>

\* A callback of the fan-out in progress makes the repositories store deliver
\* a list before it returns: the update handler runs inside the for loop.
\* One fan-out has its snapshot replaced once.
ReentrantRegistryUpdate ==
    \E allRepositories \in SeqsUpTo(Repositories, MaxRepos) :
        /\ frame.pc = "loop"
        /\ frame.i > 1
        /\ frame.snapshot = repositories
        /\ repositories' = onDidUpdate(allRepositories)
        /\ registry' = [updated |-> TRUE, list |-> allRepositories]
        /\ dropped' = Range(repositories) \ Range(allRepositories)
        /\ storeCalls' = <<>>
        /\ lastOp' = [op |-> "onDidUpdate"]
        /\ UNCHANGED <<currentPullRequestUpdater, updaterCalls, subscribed,
                       handles, frame, invoked>>

-----------------------------------------------------------------------------
(* Callback registration (lines 38-55, 58-75) *)

\* a handle of the coordinator's own that is not connected to the store's
registrationHandle_Detached(storeHandle) == [registration |-> "none"]

\* lines 44 and 64: the method returns what the store's registration returned
registrationHandle(storeHandle) == storeHandle

\* One registration per store event is modelled.
Register(kind, method) ==
    /\ kind \notin subscribed
    /\ \A h \in handles : h.kind # kind
    /\ subscribed' = subscribed \cup {kind}
    /\ handles' = handles \cup
           {[kind |-> kind,
             handle |-> registrationHandle([registration |-> kind]),
             disposed |-> FALSE]}
    /\ storeCalls' = <<[method |-> method]>>
    /\ lastOp' = [op |-> method]
    /\ UNCHANGED <<repositories, currentPullRequestUpdater, registry, dropped,
                   updaterCalls, frame, invoked>>

onPullRequestsChanged == Register("pullRequestsChanged", "onPullRequestsChanged")

onIsLoadingPullRequests == Register("isLoading", "onIsLoadingPullRequests")

\* The caller invokes the handle a registration returned to it: the store
\* removes the handler that handle stands for.  Between handlers only.
Dispose(kind) ==
    \E h \in handles :
        /\ h.kind = kind
        /\ ~h.disposed
        /\ frame.pc # "loop"
        /\ subscribed' = subscribed \ {h.handle.registration}
        /\ handles' = (handles \ {h}) \cup {[h EXCEPT !.disposed = TRUE]}
        /\ storeCalls' = <<>>
        /\ lastOp' = [op |-> "dispose"]
        /\ UNCHANGED <<repositories, currentPullRequestUpdater, registry,
                       dropped, updaterCalls, frame, invoked>>

DisposePullRequestsChanged == Dispose("pullRequestsChanged")

DisposeIsLoading == Dispose("isLoading")

-----------------------------------------------------------------------------
(* Read-through and refresh (lines 78-91) *)

\* refreshes the upstream of a fork instead of the fork
refreshPullRequests_Parent(repository, account) ==
    <<[method |-> "refreshPullRequests",
       repository |-> IF repository.gitHubRepository.parent # NULL
                      THEN repository.gitHubRepository.parent
                      ELSE repository.gitHubRepository,
       account |-> account]>>

\* lines 82-85: the store calls refreshPullRequests makes
refreshPullRequests(repository, account) ==
    <<[method |-> "refreshPullRequests",
       repository |-> repository.gitHubRepository,
       account |-> account]>>

\* line 90: the store calls getAllPullRequests makes
getAllPullRequests(repository) ==
    <<[method |-> "getAll", repository |-> repository.gitHubRepository]>>

\* How the store's refresh ends: its promise resolves or rejects.
StoreOutcomes == {"resolved", "rejected"}

\* catches the store's failure and reports success
refreshPullRequestsReturn_Swallow(storeResult) == "resolved"

\* line 82: the method returns the store's promise itself
refreshPullRequestsReturn(storeResult) == storeResult

RefreshPullRequests ==
    \E repository \in RepositoriesWithGitHubRepository, account \in Accounts,
       outcome \in StoreOutcomes :
        /\ storeCalls' = refreshPullRequests(repository, account)
        /\ lastOp' = [op |-> "refreshPullRequests",
                      repository |-> repository, account |-> account,
                      outcome |-> outcome,
                      returned |-> refreshPullRequestsReturn(outcome)]
        /\ UNCHANGED <<repositories, currentPullRequestUpdater, registry,
                       dropped, updaterCalls, subscribed, handles, frame, invoked>>

GetAllPullRequests ==
    \E repository \in RepositoriesWithGitHubRepository :
        /\ storeCalls' = getAllPullRequests(repository)
        /\ lastOp' = [op |-> "getAllPullRequests", repository |-> repository]
        /\ UNCHANGED <<repositories, currentPullRequestUpdater, registry,
                       dropped, updaterCalls, subscribed, handles, frame, invoked>>

-----------------------------------------------------------------------------
(* Updater lifecycle (lines 94-116) *)

Constructed(calls) == Cardinality({i \in 1..Len(calls) : calls[i].call = "start"})

\* drops the reference without stopping the updater
stopPullRequestUpdater_KeepRunning(cur, calls) ==
    [cur |-> NULL, calls |-> calls]

\* stops the updater and keeps the reference
stopPullRequestUpdater_KeepReference(cur, calls) ==
    IF cur # NULL
    THEN [cur |-> cur, calls |-> Append(calls, [id |-> cur.id, call |-> "stop"])]
    ELSE [cur |-> cur, calls |-> calls]

\* lines 111-116, as a function of the field and the call log
stopPullRequestUpdater(cur, calls) ==
    IF cur # NULL
    THEN [cur |-> NULL, calls |-> Append(calls, [id |-> cur.id, call |-> "stop"])]
    ELSE [cur |-> cur, calls |-> calls]

\* starts the new updater before it stops the previous one
startPullRequestUpdater_StartFirst(cur, calls, repository, account) ==
    LET updater == [id |-> Constructed(calls) + 1,
                    gitHubRepository |-> repository.gitHubRepository,
                    account |-> account,
                    store |-> pullRequestStore]
        started == Append(calls, [id |-> updater.id, call |-> "start"])
    IN  [cur |-> updater,
         calls |-> IF cur # NULL
                   THEN Append(started, [id |-> cur.id, call |-> "stop"])
                   ELSE started]

\* keeps the running updater when it is for the same GitHub repository
startPullRequestUpdater_Reuse(cur, calls, repository, account) ==
    IF cur # NULL /\ cur.gitHubRepository = repository.gitHubRepository
    THEN [cur |-> cur, calls |-> calls]
    ELSE LET stopped == IF cur # NULL
                        THEN stopPullRequestUpdater(cur, calls)
                        ELSE [cur |-> cur, calls |-> calls]
             updater == [id |-> Constructed(calls) + 1,
                         gitHubRepository |-> repository.gitHubRepository,
                         account |-> account,
                         store |-> pullRequestStore]
         IN  [cur |-> updater,
              calls |-> Append(stopped.calls,
                               [id |-> updater.id, call |-> "start"])]

\* lines 94-108
startPullRequestUpdater(cur, calls, repository, account) ==
    LET stopped == IF cur # NULL
                   THEN stopPullRequestUpdater(cur, calls)
                   ELSE [cur |-> cur, calls |-> calls]
        updater == [id |-> Constructed(calls) + 1,
                    gitHubRepository |-> repository.gitHubRepository,
                    account |-> account,
                    store |-> pullRequestStore]
    IN  [cur |-> updater,
         calls |-> Append(stopped.calls, [id |-> updater.id, call |-> "start"])]

StartPullRequestUpdater ==
    \E repository \in RepositoriesWithGitHubRepository, account \in Accounts :
        /\ Constructed(updaterCalls) < MaxUpdaters
        /\ LET r == startPullRequestUpdater(currentPullRequestUpdater,
                                            updaterCalls, repository, account)
           IN  /\ currentPullRequestUpdater' = r.cur
               /\ updaterCalls' = r.calls
        /\ storeCalls' = <<>>
        /\ lastOp' = [op |-> "startPullRequestUpdater",
                      repository |-> repository, account |-> account,
                      active |-> currentPullRequestUpdater # NULL]
        /\ UNCHANGED <<repositories, registry, dropped, subscribed, handles,
                       frame, invoked>>

StopPullRequestUpdater ==
    /\ LET r == stopPullRequestUpdater(currentPullRequestUpdater, updaterCalls)
       IN  /\ currentPullRequestUpdater' = r.cur
           /\ updaterCalls' = r.calls
    /\ storeCalls' = <<>>
    /\ lastOp' = [op |-> "stopPullRequestUpdater",
                  active |-> currentPullRequestUpdater # NULL]
    /\ UNCHANGED <<repositories, registry, dropped, subscribed, handles,
                 frame, invoked>>

-----------------------------------------------------------------------------
(* formatAsLocalRef (app/src/lib/git/refs.ts, lines 14-24).  A string is   *)
(* the sequence of its characters.                                         *)

MaxNameLen == 3     \* longest free part of a branch name

HeadsPrefix == <<"h", "e", "a", "d", "s", "/">>
RefsPrefix == <<"r", "e", "f", "s", "/">>
NameChars == {"h", "/", "m"}

\* Branch names: any beginning of "heads/", then up to MaxNameLen characters.
BranchNames ==
    {SubSeq(HeadsPrefix, 1, k) \o t :
        k \in 0..Len(HeadsPrefix), t \in SeqsUpTo(NameChars, MaxNameLen)}

\* String.prototype.startsWith
startsWith(s, prefix) ==
    /\ Len(s) >= Len(prefix)
    /\ SubSeq(s, 1, Len(prefix)) = prefix

\* qualifies every name, the explicit heads/ form included
formatAsLocalRef_AlwaysQualify(name) == RefsPrefix \o HeadsPrefix \o name

formatAsLocalRef(name) ==
    IF startsWith(name, HeadsPrefix)
    THEN RefsPrefix \o name
    ELSE RefsPrefix \o HeadsPrefix \o name

FormatAsLocalRef ==
    \E name \in BranchNames :
        /\ lastOp' = [op |-> "formatAsLocalRef", name |-> name,
                      result |-> formatAsLocalRef(name)]
        /\ UNCHANGED <<repositories, currentPullRequestUpdater, registry,
                       dropped, updaterCalls, subscribed, handles, frame,
                       invoked, storeCalls>>

-----------------------------------------------------------------------------

(* Specifications.  The snapshot with its fan-out and the calls on the     *)
(* store and the updaters touch disjoint parts of the state, so each is    *)
(* explored in a specification of its own.                                  *)

\* Registry updates, callback registration and store events.
NextFanOut ==
    \/ RegistryUpdate
    \/ PullRequestsChangedEvent
    \/ IsLoadingEvent
    \/ InvokeCallback
    \/ onPullRequestsChanged
    \/ onIsLoadingPullRequests

SpecFanOut == Init /\ [][NextFanOut]_vars

\* The same, with the callers invoking the unsubscribe handles.
NextUnsubscribe ==
    \/ RegistryUpdate
    \/ PullRequestsChangedEvent
    \/ IsLoadingEvent
    \/ InvokeCallback
    \/ onPullRequestsChanged
    \/ onIsLoadingPullRequests
    \/ DisposePullRequestsChanged
    \/ DisposeIsLoading

SpecUnsubscribe == Init /\ [][NextUnsubscribe]_vars

\* Callbacks registered before the registry delivers its first list.
EarlyOnPullRequestsChanged == ~registry.updated /\ onPullRequestsChanged

EarlyOnIsLoadingPullRequests == ~registry.updated /\ onIsLoadingPullRequests

NextRegisteredFirst ==
    \/ RegistryUpdate
    \/ PullRequestsChangedEvent
    \/ IsLoadingEvent
    \/ InvokeCallback
    \/ EarlyOnPullRequestsChanged
    \/ EarlyOnIsLoadingPullRequests

SpecRegisteredFirst == Init /\ [][NextRegisteredFirst]_vars

\* Registry updates arriving inside a fan-out as well as between handlers,
\* for the pull-requests-changed handler.
NextReentrant ==
    \/ RegistryUpdate
    \/ ReentrantRegistryUpdate
    \/ PullRequestsChangedEvent
    \/ InvokeCallback
    \/ onPullRequestsChanged

SpecReentrant == Init /\ [][NextReentrant]_vars

\* formatAsLocalRef applied to branch names.
NextRefs == FormatAsLocalRef

SpecRefs == Init /\ [][NextRefs]_vars

\* The methods that call the store and the updaters.
NextCalls ==
    \/ RefreshPullRequests
    \/ GetAllPullRequests
    \/ StartPullRequestUpdater
    \/ StopPullRequestUpdater

SpecCalls == Init /\ [][NextCalls]_vars

\* Every handler and method of the coordinator, interleaved.  To keep the
\* product of the two parts of the state small the registry delivers lists of
\* at most MaxFrameRepos repositories, at most MaxFrameUpdaters updaters are
\* constructed, the methods are called for repositories of the snapshot and
\* with the first account, the store's refresh succeeds, and the store events
\* name upstream repositories and carry one payload each.
MaxFrameRepos == 1
MaxFrameUpdaters == 1

FrameRegistryUpdate ==
    RegistryUpdate /\ Len(registry'.list) <= MaxFrameRepos

FramePullRequestsChangedEvent ==
    /\ PullRequestsChangedEvent
    /\ frame'.arg = "prsA"
    /\ frame'.ghRepo \in Upstreams

FrameIsLoadingEvent ==
    /\ IsLoadingEvent
    /\ frame'.arg = TRUE
    /\ frame'.ghRepo \in Upstreams

FrameRefreshPullRequests ==
    /\ RefreshPullRequests
    /\ lastOp'.repository \in Range(repositories)
    /\ lastOp'.account = "acc1"
    /\ lastOp'.outcome = "resolved"

FrameGetAllPullRequests ==
    GetAllPullRequests /\ lastOp'.repository \in Range(repositories)

FrameStartPullRequestUpdater ==
    /\ StartPullRequestUpdater
    /\ Constructed(updaterCalls') <= MaxFrameUpdaters
    /\ lastOp'.repository \in Range(repositories)
    /\ lastOp'.account = "acc1"

NextFrame ==
    \/ FrameRegistryUpdate
    \/ FramePullRequestsChangedEvent
    \/ FrameIsLoadingEvent
    \/ InvokeCallback
    \/ onPullRequestsChanged
    \/ onIsLoadingPullRequests
    \/ FrameRefreshPullRequests
    \/ FrameGetAllPullRequests
    \/ FrameStartPullRequestUpdater
    \/ StopPullRequestUpdater

SpecFrame == Init /\ [][NextFrame]_vars

-----------------------------------------------------------------------------
(* Properties of the updater lifecycle and of the store calls (SpecCalls) *)

UpdaterIds == 1..Constructed(updaterCalls)

\* The calls made on updater id, in order.
CallsOn(id, calls) ==
    LET on == SelectSeq(calls, LAMBDA c : c.id = id)
    IN  [k \in 1..Len(on) |-> on[k].call]

\* An updater is live if start() was called on it and stop() was not.
LiveUpdaters ==
    {id \in UpdaterIds :
        /\ \E i \in 1..Len(updaterCalls) :
               updaterCalls[i] = [id |-> id, call |-> "start"]
        /\ \A i \in 1..Len(updaterCalls) :
               updaterCalls[i] # [id |-> id, call |-> "stop"]}

\* C1: in every reachable state at most one PullRequestUpdater is live
\* (started and not stopped), whatever starts and stops were called.
C1_AtMostOneLiveUpdater == Cardinality(LiveUpdaters) <= 1

\* A second updater was started while the first was running.
C1_Witness ==
    /\ lastOp.op = "startPullRequestUpdater"
    /\ lastOp.active
    /\ Constructed(updaterCalls) = 2
    /\ LiveUpdaters = {2}

\* C2: a startPullRequestUpdater entered while an updater is current stops
\* that updater once, then starts the new one once, the stop() preceding the
\* start(); and no updater ever receives a call after its stop(): the calls on
\* an updater are start(), then at most one stop().
C2_SuccessiveStarts ==
    [][ /\ \A id \in 1..MaxUpdaters :
               CallsOn(id, updaterCalls') \in {<<>>, <<"start">>, <<"start", "stop">>}
        /\ ( /\ lastOp'.op = "startPullRequestUpdater"
             /\ updaterCalls' # updaterCalls
             /\ currentPullRequestUpdater # NULL )
           => LET first == currentPullRequestUpdater.id
                  second == currentPullRequestUpdater'.id
              IN  /\ first # second
                  /\ updaterCalls' = updaterCalls \o
                         <<[id |-> first, call |-> "stop"],
                           [id |-> second, call |-> "start"]>>
                  /\ CallsOn(first, updaterCalls') = <<"start", "stop">>
                  /\ CallsOn(second, updaterCalls') = <<"start">>
      ]_vars

\* Two starts with no stop between them.
C2_Witness ==
    /\ lastOp.op = "startPullRequestUpdater"
    /\ lastOp.active
    /\ updaterCalls = <<[id |-> 1, call |-> "start"],
                        [id |-> 1, call |-> "stop"],
                        [id |-> 2, call |-> "start"]>>
    /\ currentPullRequestUpdater.id = 2

\* C3: stopPullRequestUpdater with no current updater calls no updater,
\* invokes no callback and changes nothing of the coordinator; with a current
\* updater it calls stop() once on it; either way the field is null after it,
\* so that repeated stops after a start issue one stop() in all.
C3_StopIdempotent ==
    [][ lastOp'.op = "stopPullRequestUpdater"
        => /\ currentPullRequestUpdater' = NULL
           /\ UNCHANGED <<invoked, frame, repositories, registry, subscribed>>
           /\ IF currentPullRequestUpdater = NULL
              THEN updaterCalls' = updaterCalls
              ELSE /\ updaterCalls' = Append(updaterCalls,
                          [id |-> currentPullRequestUpdater.id, call |-> "stop"])
                   /\ CallsOn(currentPullRequestUpdater.id, updaterCalls')
                          = <<"start", "stop">>
      ]_vars

\* A stop entered with no current updater, after a start and a stop.
C3_Witness ==
    /\ lastOp.op = "stopPullRequestUpdater"
    /\ ~lastOp.active
    /\ updaterCalls = <<[id |-> 1, call |-> "start"], [id |-> 1, call |-> "stop"]>>
    /\ currentPullRequestUpdater = NULL

\* C9: refreshPullRequests and getAllPullRequests each make one store call,
\* on the repository's gitHubRepository (not the repository, not the parent),
\* and refreshPullRequests hands the account on unchanged.
C9_StoreCallsUseGitHubRepository ==
    /\ lastOp.op = "refreshPullRequests"
       => /\ Len(storeCalls) = 1
          /\ storeCalls[1].method = "refreshPullRequests"
          /\ storeCalls[1].repository = lastOp.repository.gitHubRepository
          /\ storeCalls[1].repository # lastOp.repository
          /\ storeCalls[1].repository # lastOp.repository.gitHubRepository.parent
          /\ storeCalls[1].account = lastOp.account
    /\ lastOp.op = "getAllPullRequests"
       => /\ Len(storeCalls) = 1
          /\ storeCalls[1].method = "getAll"
          /\ storeCalls[1].repository = lastOp.repository.gitHubRepository
          /\ storeCalls[1].repository # lastOp.repository
          /\ storeCalls[1].repository # lastOp.repository.gitHubRepository.parent

\* A refresh for a fork, with the second account.
C9_Witness ==
    /\ lastOp.op = "refreshPullRequests"
    /\ lastOp.repository.gitHubRepository.parent # NULL
    /\ lastOp.account = "acc2"
    /\ Len(storeCalls) = 1

-----------------------------------------------------------------------------
(* Properties of the snapshot and of the fan-out (SpecFanOut) *)

\* The association of section 3: the remote R is "for" the local L.
IsFor(R, L) ==
    \/ L.gitHubRepository.dbID = R.dbID
    \/ /\ L.gitHubRepository.parent # NULL
       /\ L.gitHubRepository.parent.dbID = R.dbID

\* The repositories the callback was invoked for, in order.
InvokedFor == [k \in 1..Len(invoked) |-> invoked[k].repository]

\* s holds exactly the entries of S that are for R, as often as S holds them.
ExactlyTheMatches(s, R, S) ==
    \A L \in RepositoriesWithGitHubRepository :
        Count(L, s) = IF IsFor(R, L) THEN Count(L, S) ELSE 0

\* C4: the list findRepositoriesForGitHubRepository returned to a handler
\* holds every entry of the snapshot whose remote, or whose remote's parent,
\* has the event's dbID, and no other entry.
C4_FindReturnsExactlyTheMatches ==
    frame.pc # "idle"
    => ExactlyTheMatches(frame.repositories, frame.ghRepo, frame.snapshot)

\* A fork matched through its parent, beside an entry that does not match.
C4_Witness ==
    /\ frame.pc # "idle"
    /\ Len(frame.snapshot) = 2
    /\ Len(frame.repositories) = 1
    /\ frame.repositories[1].gitHubRepository.dbID # frame.ghRepo.dbID

\* C5: when the handler of a pull-requests-changed event (R, prs) has
\* returned, the callback was invoked once for each entry of the snapshot that
\* is for R and for nothing else, each time with prs.
C5_FanOutOncePerMatch ==
    (frame.pc = "done" /\ frame.kind = "pullRequestsChanged")
    => /\ ExactlyTheMatches(InvokedFor, frame.ghRepo, frame.snapshot)
       /\ Len(invoked) = Cardinality({i \in 1..Len(frame.snapshot) :
                                         IsFor(frame.ghRepo, frame.snapshot[i])})
       /\ \A k \in 1..Len(invoked) : invoked[k].arg = frame.arg

\* An upstream clone and a fork of it both received the event's list.
C5_Witness ==
    /\ frame.pc = "done"
    /\ frame.kind = "pullRequestsChanged"
    /\ Len(invoked) = 2
    /\ \E i, j \in 1..2 :
          /\ invoked[i].repository.gitHubRepository.dbID = frame.ghRepo.dbID
          /\ invoked[j].repository.gitHubRepository.parent # NULL
          /\ invoked[j].repository.gitHubRepository.parent.dbID = frame.ghRepo.dbID
    /\ invoked[1].arg = "prsB"
    /\ invoked[2].arg = "prsB"

\* A step that enters a store-event handler.
EventEntered ==
    /\ lastOp'.op \in {"pullRequestsChanged", "isLoading"}
    /\ frame'.pc # "idle"
    /\ frame'.i = 1

\* C6: a store event for a remote that no entry of the snapshot is for
\* invokes no callback, returns normally and leaves the coordinator's fields
\* as they were.
C6_NoMatchNoCallback ==
    [][ ( /\ EventEntered
          /\ \A i \in 1..Len(repositories) : ~IsFor(frame'.ghRepo, repositories[i]) )
        => /\ frame'.pc = "done"
           /\ invoked' = <<>>
           /\ UNCHANGED <<repositories, currentPullRequestUpdater, registry,
                          updaterCalls, subscribed, handles>>
      ]_vars

\* An event none of the snapshot's two entries is for.
C6_Witness ==
    /\ frame.pc = "done"
    /\ Len(frame.snapshot) = 2
    /\ \A i \in 1..2 : ~IsFor(frame.ghRepo, frame.snapshot[i])
    /\ invoked = <<>>

\* C7: a repository that was in the snapshot before the last registry update
\* and is not in the list that update delivered gets no callback from a store
\* event handled after the update.
C7_DroppedGetNoCallback ==
    \A k \in 1..Len(invoked) : invoked[k].repository \notin dropped

\* An event was handled for a remote that a dropped repository is for, and
\* reached another repository.
C7_Witness ==
    /\ frame.pc = "done"
    /\ \E x \in dropped : IsFor(frame.ghRepo, x)
    /\ invoked # <<>>

\* The indices of the registry's list that hold a repository with a remote.
WithRemote(list) == {i \in 1..Len(list) : list[i].gitHubRepository # NULL}

\* C8: the snapshot is the last list the registry delivered (the empty list
\* before the first delivery) with the repositories that have no GitHub
\* repository left out and the order of the others kept.
C8_SnapshotIsLastListFiltered ==
    LET keep == WithRemote(registry.list)
    IN  /\ Len(repositories) = Cardinality(keep)
        /\ \A i \in keep :
               repositories[Cardinality({j \in keep : j <= i})] = registry.list[i]
        /\ \A k \in 1..Len(repositories) : repositories[k].gitHubRepository # NULL
        /\ ~registry.updated => repositories = <<>>

\* The last list led with a repository without a remote, and an entry of the
\* list before it is gone.
C8_Witness ==
    /\ registry.updated
    /\ Len(registry.list) = 2
    /\ registry.list[1].gitHubRepository = NULL
    /\ Len(repositories) = 1
    /\ dropped # {}

\* C10: the handler of a loading-state event invokes its callback for the
\* repositories, in the order, that the pull-requests-changed handler matches
\* for the same remote and snapshot, each time with the event's isLoading; and
\* the pull-requests-changed handler for those the loading-state handler
\* matches.
C10_SameFanOut ==
    /\ (frame.pc = "done" /\ frame.kind = "isLoading")
       => /\ InvokedFor = pullRequestsChangedMatches(frame.ghRepo, frame.snapshot)
          /\ \A k \in 1..Len(invoked) : invoked[k].arg = frame.arg
    /\ (frame.pc = "done" /\ frame.kind = "pullRequestsChanged")
       => InvokedFor = isLoadingMatches(frame.ghRepo, frame.snapshot)

\* A loading-state event reached a clone and a fork.
C10_Witness ==
    /\ frame.pc = "done"
    /\ frame.kind = "isLoading"
    /\ frame.arg = TRUE
    /\ Len(invoked) = 2
    /\ invoked[1].repository # invoked[2].repository

\* The indices of snapshot S whose entry is for R.
MatchingIndices(R, S) == {i \in 1..Len(S) : IsFor(R, S[i])}

\* C11: the callbacks of one store event are invoked in snapshot order: the
\* k-th invocation is for the k-th entry of the snapshot that matches, so an
\* entry at a smaller index is served before one at a larger index.
C11_FanOutInSnapshotOrder ==
    frame.pc # "idle"
    => LET M == MatchingIndices(frame.ghRepo, frame.snapshot)
       IN  \A i \in M :
               LET k == Cardinality({j \in M : j <= i})
               IN  k <= Len(invoked) => invoked[k].repository = frame.snapshot[i]

\* Two different matching entries were both served, the first of the
\* snapshot first.
C11_Witness ==
    /\ frame.pc = "done"
    /\ Len(frame.snapshot) = 2
    /\ frame.snapshot[1] # frame.snapshot[2]
    /\ Len(invoked) = 2
    /\ invoked[1].repository = frame.snapshot[1]
    /\ invoked[2].repository = frame.snapshot[2]

-----------------------------------------------------------------------------
(* Unsubscribing (SpecUnsubscribe) *)

\* C12: once the handle a registration returned has been invoked, no callback
\* of that registration is invoked again.
C12_NoCallbackAfterUnsubscribe ==
    [][ (invoked' # invoked /\ invoked' # <<>>)
        => \A h \in handles' : h.kind = frame'.kind => ~h.disposed
      ]_vars

\* The pull-requests-changed callback was served, then its handle invoked,
\* with a snapshot that still has repositories.
C12_Witness ==
    /\ \E h \in handles : h.kind = "pullRequestsChanged" /\ h.disposed
    /\ lastOp.op = "dispose"
    /\ frame.pc = "done"
    /\ frame.kind = "pullRequestsChanged"
    /\ invoked # <<>>
    /\ repositories # <<>>

-----------------------------------------------------------------------------
(* Further properties of the store and updater calls (SpecCalls) *)

\* C13: refreshPullRequests hands its caller the outcome of the store's
\* refresh as it is, a failure included, after a single store call (no
\* retry), and leaves the snapshot and the current updater as they were.
C13_RefreshFailurePropagates ==
    [][ lastOp'.op = "refreshPullRequests"
        => /\ lastOp'.returned = lastOp'.outcome
           /\ Len(storeCalls') = 1
           /\ UNCHANGED <<repositories, currentPullRequestUpdater, updaterCalls>>
      ]_vars

\* A refresh that failed while an updater was running.
C13_Witness ==
    /\ lastOp.op = "refreshPullRequests"
    /\ lastOp.outcome = "rejected"
    /\ lastOp.returned = "rejected"
    /\ currentPullRequestUpdater # NULL

-----------------------------------------------------------------------------
(* formatAsLocalRef (SpecRefs) *)

\* p is a beginning of s.
HasPrefix(s, p) == Len(s) >= Len(p) /\ \A i \in 1..Len(p) : s[i] = p[i]

\* p is an end of s.
HasSuffix(s, p) ==
    Len(s) >= Len(p) /\ \A i \in 1..Len(p) : s[Len(s) - Len(p) + i] = p[i]

\* C14: formatAsLocalRef(name) is "refs/" followed by name when name begins
\* with "heads/", and "refs/heads/" followed by name otherwise; so the result
\* always begins with "refs/heads/" and ends with name.
C14_FormatAsLocalRef ==
    lastOp.op = "formatAsLocalRef"
    => LET name == lastOp.name
           result == lastOp.result
       IN  /\ HasPrefix(name, HeadsPrefix) => result = RefsPrefix \o name
           /\ ~HasPrefix(name, HeadsPrefix)
                  => result = RefsPrefix \o HeadsPrefix \o name
           /\ HasPrefix(result, RefsPrefix \o HeadsPrefix)
           /\ HasSuffix(result, name)

\* heads/m/h is formatted as refs/heads/m/h.
C14_Witness ==
    /\ lastOp.op = "formatAsLocalRef"
    /\ lastOp.name = <<"h", "e", "a", "d", "s", "/", "m", "/", "h">>
    /\ lastOp.result = <<"r", "e", "f", "s", "/",
                         "h", "e", "a", "d", "s", "/", "m", "/", "h">>

-----------------------------------------------------------------------------
(* Registration before the registry's updates (SpecRegisteredFirst) *)

\* C15: a handler reads the snapshot when its event arrives: a callback
\* registered while the snapshot was still empty is invoked, by every store
\* event handled later, for each repository the registry has added since that
\* the event's remote is for.
C15_SnapshotReadAtEventTime ==
    frame.pc = "done"
    => \A i \in 1..Len(repositories) :
           IsFor(frame.ghRepo, repositories[i])
           => \E k \in 1..Len(invoked) : invoked[k].repository = repositories[i]

\* After the registration the registry delivered at least two lists, and an
\* event reached a repository of the last one.
C15_Witness ==
    /\ frame.pc = "done"
    /\ frame.kind = "pullRequestsChanged"
    /\ dropped # {}
    /\ Len(repositories) = 2
    /\ Len(invoked) = 1
    /\ invoked[1].repository = repositories[2]

-----------------------------------------------------------------------------
(* The live updater and the last lifecycle call (SpecCalls) *)

\* C16: before any call no updater is live and the field is null; after
\* startPullRequestUpdater(L, A) the one live updater is the current one, newly
\* constructed for L's GitHub repository, A and the coordinator's store; after
\* stopPullRequestUpdater none is live and the field is null; the other
\* methods leave the field and the updaters alone.
C16_LiveUpdaterFollowsLastCall ==
    /\ currentPullRequestUpdater = NULL
    /\ LiveUpdaters = {}
    /\ [][ /\ lastOp'.op = "startPullRequestUpdater"
              => /\ currentPullRequestUpdater' # NULL
                 /\ LiveUpdaters' = {currentPullRequestUpdater'.id}
                 /\ currentPullRequestUpdater'.gitHubRepository
                        = lastOp'.repository.gitHubRepository
                 /\ currentPullRequestUpdater'.account = lastOp'.account
                 /\ currentPullRequestUpdater'.store = pullRequestStore
                 /\ updaterCalls' # updaterCalls
                        => currentPullRequestUpdater'.id \notin UpdaterIds
           /\ lastOp'.op = "stopPullRequestUpdater"
              => /\ currentPullRequestUpdater' = NULL
                 /\ LiveUpdaters' = {}
           /\ lastOp'.op \notin {"startPullRequestUpdater", "stopPullRequestUpdater"}
              => UNCHANGED <<currentPullRequestUpdater, updaterCalls>>
         ]_vars

\* A second start, for a fork and the second account, replaced a running
\* updater.
C16_Witness ==
    /\ lastOp.op = "startPullRequestUpdater"
    /\ lastOp.active
    /\ lastOp.account = "acc2"
    /\ lastOp.repository.gitHubRepository.parent # NULL
    /\ currentPullRequestUpdater # NULL
    /\ currentPullRequestUpdater.id = 2
    /\ currentPullRequestUpdater.account = "acc2"
    /\ currentPullRequestUpdater.gitHubRepository = lastOp.repository.gitHubRepository

-----------------------------------------------------------------------------
(* Before the registry's first update (SpecFanOut) *)

\* C18: until the registry has delivered its first list the snapshot is
\* empty, and a store event, whatever its remote, finds no match and invokes
\* no callback.
C18_NoFanOutBeforeFirstUpdate ==
    ~registry.updated
    => /\ repositories = <<>>
       /\ invoked = <<>>
       /\ frame.pc # "idle" => (frame.pc = "done" /\ frame.repositories = <<>>)

\* Both callbacks are registered and a store event was handled, with no
\* registry update yet.
C18_Witness ==
    /\ ~registry.updated
    /\ subscribed = {"pullRequestsChanged", "isLoading"}
    /\ frame.pc = "done"
    /\ frame.kind = "isLoading"
    /\ invoked = <<>>

-----------------------------------------------------------------------------
(* Registry updates inside a fan-out (SpecReentrant) *)

\* C19: a handler serves the matches of the snapshot it read on entry, all of
\* them and no others, also when a callback replaced the snapshot during the
\* loop; the handler of the next event reads the field as it is then.
C19_FanOutUsesSnapshotAtEntry ==
    /\ frame.pc = "done"
       => /\ ExactlyTheMatches(InvokedFor, frame.ghRepo, frame.snapshot)
          /\ Len(invoked) = Cardinality(
                 MatchingIndices(frame.ghRepo, frame.snapshot))
    /\ (frame.pc # "idle" /\ frame.i = 1)
       => /\ frame.snapshot = repositories
          /\ ExactlyTheMatches(frame.repositories, frame.ghRepo, repositories)

\* The snapshot was replaced after the first of two callbacks, and the second
\* went to a repository that the new snapshot does not hold.
C19_Witness ==
    /\ frame.pc = "done"
    /\ Len(invoked) = 2
    /\ frame.snapshot # repositories
    /\ \A i \in 1..Len(repositories) : repositories[i] # invoked[2].repository
    /\ \E i \in 1..Len(repositories) : IsFor(frame.ghRepo, repositories[i])

-----------------------------------------------------------------------------
(* What each operation leaves alone (SpecFrame) *)

LifecycleOps == {"startPullRequestUpdater", "stopPullRequestUpdater"}

\* C17: the snapshot changes only in the registry's update handler, which
\* leaves the current updater and the updaters' calls alone; the current
\* updater and the calls on updaters change only in startPullRequestUpdater
\* and stopPullRequestUpdater, which leave the snapshot alone; store events,
\* their callbacks, registration, refreshPullRequests and getAllPullRequests
\* change neither.
C17_OperationsKeepToTheirPart ==
    [][ /\ repositories' # repositories => lastOp'.op = "onDidUpdate"
        /\ (currentPullRequestUpdater' # currentPullRequestUpdater
               \/ updaterCalls' # updaterCalls)
           => lastOp'.op \in LifecycleOps
        /\ lastOp'.op = "onDidUpdate"
           => UNCHANGED <<currentPullRequestUpdater, updaterCalls>>
        /\ lastOp'.op \in LifecycleOps => UNCHANGED repositories
        /\ lastOp'.op \notin LifecycleOps \cup {"onDidUpdate"}
           => UNCHANGED <<repositories, currentPullRequestUpdater, updaterCalls>>
      ]_vars

\* The registry replaced the snapshot while an updater was running and both
\* callbacks were registered.
C17_Witness ==
    /\ lastOp.op = "onDidUpdate"
    /\ dropped # {}
    /\ repositories # <<>>
    /\ currentPullRequestUpdater # NULL
    /\ LiveUpdaters = {1}
    /\ subscribed = {"pullRequestsChanged", "isLoading"}

=============================================================================
